---- MODULE Spec2Model ----
(***************************************************************************)
(* Family-tree plugin: the Parents-section parser, the tree variant's      *)
(* loadPeople / buildFamilyLinks pipeline and its view (drawTree: genders, *)
(* root, hierarchy), the flowchart variant's buildFamilyGraph /            *)
(* openMermaidView and the click listener of its nodes.                    *)
(*                                                                         *)
(* A text is a sequence of characters.  The characters that the regular    *)
(* expressions of the source tell apart are kept apart:                    *)
(*   "#" "-" "*" ":" "[" "]" "|"   themselves                              *)
(*   "NL"   a line feed            "SP"  a blank (white space, not \n)     *)
(*   "Par"  the literal Родители in exactly this letter case               *)
(*   "par"  the same word in another letter case (e.g. родители)           *)
(*   "Mat"  the literal Мать, "Ot" the literal Отец (any letter case: both *)
(*          variants match them with the flag i)                           *)
(*   "a" "b" "s"  Latin letters                                            *)
(*   "ca"   the Cyrillic small letter а, "YA" the Cyrillic capital letter Я *)
(* A name (file base name, parent id) is a sequence of characters too.     *)
(***************************************************************************)
EXTENDS Integers, Sequences, FiniteSets, TLC

VARIABLES
    content, result, parsed,    \* a parser run: the text, the value returned, whether it ran
    vault,                      \* the corpus: vault.getMarkdownFiles(), each file with its text
    people,                     \* FamilyTreePlugin.people
    pc, files, idx,             \* loadPeople: where it stands, its file list, the file being read
    failed,                     \* the indices of the files whose read raised in this build
    pcSecond, idxSecond,        \* a second invocation of loadPeople: where it stands, the file it reads
    fpc, ffiles, fidx,          \* openMermaidView/buildFamilyGraph: position, file list, file being read
    nodes, fpeople,             \* buildFamilyGraph: its nodes (a Set, in insertion order), its people
    shown, notice,              \* the diagram given to the view, the Notice shown to the user
    ffailed,                    \* the indices of the files whose read raised in this flowchart build
    tree, rebuilt,              \* FamilyTreeView: the hierarchy it drew, whether it had drawn before
    clicked, opened,            \* MermaidView: the label of the node clicked last, the file opened for it
    named, nodeIds              \* createNodeId runs: the names given, the ids returned

parseVars == <<content, result, parsed>>
viewVars  == <<tree, rebuilt>>
secondVars == <<pcSecond, idxSecond>>
treeVars  == <<people, pc, files, idx, failed, viewVars, secondVars>>
clickVars == <<clicked, opened>>
idVars    == <<named, nodeIds>>
flowVars  == <<fpc, ffiles, fidx, nodes, fpeople, shown, notice, ffailed, clickVars, idVars>>
vars      == <<content, result, parsed, vault, people, pc, files, idx, failed,
               fpc, ffiles, fidx, nodes, fpeople, shown, notice, ffailed,
               tree, rebuilt, clicked, opened, pcSecond, idxSecond, named, nodeIds>>

\* ------------------------------------------------------------ bounds
MaxLines == 3
MaxFiles == 2

\* ------------------------------------------------------------ characters
Null == <<"null">>

IsWs(c) == c \in {"SP", "NL"}

At(t, i) == IF i >= 1 /\ i <= Len(t) THEN t[i] ELSE "EOF"

RECURSIVE SkipWs(_, _)
SkipWs(t, i) == IF IsWs(At(t, i)) THEN SkipWs(t, i + 1) ELSE i

RECURSIVE SkipHashes(_, _)
SkipHashes(t, i) == IF At(t, i) = "#" THEN SkipHashes(t, i + 1) ELSE i

SetMin(S) == CHOOSE x \in S : \A y \in S : x <= y

SetMax(S) == CHOOSE x \in S : \A y \in S : x >= y

IsParentsWordI(c) == c \in {"Par", "par"}

\* ------------------------------------------------------------ parseParents
\* /(^|\n)#+\s*Родители\s*\n([\s\S]*?)(?=\n#|$)/i tried with its "#+" at index p:
\* 0 when it does not match there, else the index where group 2 starts.
\* The greedy \s* before \n gives up as little as it must, so the \n that
\* the pattern consumes is the last line feed of the white space that
\* follows the word; the rest of the pattern cannot fail.
SectionStartAt(t, p) ==
    IF ~((p = 1 \/ At(t, p - 1) = "NL") /\ At(t, p) = "#") THEN 0
    ELSE LET w == SkipWs(t, SkipHashes(t, p))
         IN  IF ~IsParentsWordI(At(t, w)) THEN 0
             ELSE LET e   == SkipWs(t, w + 1)
                      nls == {j \in (w + 1)..(e - 1) : t[j] = "NL"}
                  IN  IF nls = {} THEN 0 ELSE SetMax(nls) + 1

\* Mutant of SectionEnd: the group stops at the first line feed.
RECURSIVE SectionEndOfLine(_, _)
SectionEndOfLine(t, q) ==
    IF q > Len(t) THEN q
    ELSE IF t[q] = "NL" THEN q
    ELSE SectionEndOfLine(t, q + 1)

\* ([\s\S]*?)(?=\n#|$): the lazy group stops at the first index q >= g that
\* is the end of the text or a line feed followed by "#".
RECURSIVE SectionEnd(_, _)
SectionEnd(t, q) ==
    IF q > Len(t) THEN q
    ELSE IF t[q] = "NL" /\ At(t, q + 1) = "#" THEN q
    ELSE SectionEnd(t, q + 1)

\* content.match(...): [found, block]; the leftmost match wins.
MatchParentsSection(t) ==
    LET ps == {p \in 1..Len(t) : SectionStartAt(t, p) # 0}
    IN  IF ps = {} THEN [found |-> FALSE, block |-> <<>>]
        ELSE LET g == SectionStartAt(t, SetMin(ps))
             IN  [found |-> TRUE, block |-> SubSeq(t, g, SectionEnd(t, g) - 1)]

\* (.*?)\]\] from index i: the index of the first "]]" at or after i with no
\* line feed before it, 0 when there is none.
RECURSIVE CloseAt(_, _)
CloseAt(b, i) ==
    IF i > Len(b) \/ b[i] = "NL" THEN 0
    ELSE IF b[i] = "]" /\ At(b, i + 1) = "]" THEN i
    ELSE CloseAt(b, i + 1)

\* /^[-\*]\s*<label>\s*:\s*\[\[(.*?)\]\]/im tried at index s of the block:
\* <<0, 0>> when it does not match there, else the bounds of group 1.
ParentLineAt(b, s, label) ==
    IF ~((s = 1 \/ At(b, s - 1) = "NL") /\ At(b, s) \in {"-", "*"}) THEN <<0, 0>>
    ELSE LET l == SkipWs(b, s + 1)
         IN  IF At(b, l) # label THEN <<0, 0>>
             ELSE LET c == SkipWs(b, l + 1)
                  IN  IF At(b, c) # ":" THEN <<0, 0>>
                      ELSE LET o == SkipWs(b, c + 1)
                           IN  IF ~(At(b, o) = "[" /\ At(b, o + 1) = "[") THEN <<0, 0>>
                               ELSE LET e == CloseAt(b, o + 2)
                                    IN  IF e = 0 THEN <<0, 0>> ELSE <<o + 2, e - 1>>

\* Mutant of MatchParentLine: the last matching line wins.
MatchLastParentLine(b, label) ==
    LET ss == {s \in 1..Len(b) : ParentLineAt(b, s, label) # <<0, 0>>}
    IN  IF ss = {} THEN [found |-> FALSE, ref |-> <<>>]
        ELSE LET g == ParentLineAt(b, SetMax(ss), label)
             IN  [found |-> TRUE, ref |-> SubSeq(b, g[1], g[2])]

\* block.match(...): [found, ref] with ref the text of group 1.
MatchParentLine(b, label) ==
    LET ss == {s \in 1..Len(b) : ParentLineAt(b, s, label) # <<0, 0>>}
    IN  IF ss = {} THEN [found |-> FALSE, ref |-> <<>>]
        ELSE LET g == ParentLineAt(b, SetMin(ss), label)
             IN  [found |-> TRUE, ref |-> SubSeq(b, g[1], g[2])]

\* Mutant of BeforePipe: the part after the first pipe (the alias) is taken.
RECURSIVE AfterPipe(_)
AfterPipe(r) ==
    IF r = <<>> THEN <<>>
    ELSE IF Head(r) = "|" THEN Tail(r)
    ELSE IF \E i \in 1..Len(r) : r[i] = "|" THEN AfterPipe(Tail(r))
    ELSE r

\* .split('|')[0]
RECURSIVE BeforePipe(_)
BeforePipe(r) ==
    IF r = <<>> \/ Head(r) = "|" THEN <<>>
    ELSE <<Head(r)>> \o BeforePipe(Tail(r))

\* .trim()
RECURSIVE TrimLeft(_)
TrimLeft(r) == IF r # <<>> /\ IsWs(Head(r)) THEN TrimLeft(Tail(r)) ELSE r

RECURSIVE TrimRight(_)
TrimRight(r) ==
    IF r # <<>> /\ IsWs(r[Len(r)]) THEN TrimRight(SubSeq(r, 1, Len(r) - 1)) ELSE r

Trim(r) == TrimRight(TrimLeft(r))

ParentRef(m) == IF m.found THEN Trim(BeforePipe(m.ref)) ELSE Null

parseParents(t) ==
    LET parentsSection == MatchParentsSection(t)
    IN  IF ~parentsSection.found \/ parentsSection.block = <<>>
        THEN [mother |-> Null, father |-> Null, hasSection |-> parentsSection.found]
        ELSE [mother     |-> ParentRef(MatchParentLine(parentsSection.block, "Mat")),
              father     |-> ParentRef(MatchParentLine(parentsSection.block, "Ot")),
              hasSection |-> TRUE]

\* ------------------------------------------------------------ input texts
ParentsHeading1 == <<"#", "SP", "Par">>
ParentsHeading2 == <<"#", "#", "SP", "par">>
OtherHeading1   == <<"#", "SP", "a">>
OtherHeading2   == <<"#", "#", "SP", "b">>
MotherLine(n)   == <<"-", "SP", "Mat", ":", "SP", "[", "[">> \o n \o <<"]", "]">>
FatherLine(n)   == <<"-", "SP", "Ot", ":", "SP", "[", "[">> \o n \o <<"]", "]">>
UnclosedLine(n) == <<"-", "SP", "Ot", ":", "SP", "[", "[">> \o n \o <<"]">>
PlainLine       == <<"a">>

LineKinds ==
    { ParentsHeading1, ParentsHeading2, OtherHeading1, OtherHeading2,
      MotherLine(<<"a">>), MotherLine(<<"b", "|", "a">>), MotherLine(<<"SP">>),
      FatherLine(<<"b">>), FatherLine(<<"SP", "b", "SP", "|", "a">>),
      UnclosedLine(<<"b">>), PlainLine, <<>> }

RECURSIVE JoinLines(_)
JoinLines(ls) ==
    IF ls = <<>> THEN <<>>
    ELSE IF Len(ls) = 1 THEN ls[1]
    ELSE ls[1] \o <<"NL">> \o JoinLines(Tail(ls))

LineSeqs == UNION {[1..n -> LineKinds] : n \in 0..MaxLines}

ParseTexts == {JoinLines(ls) : ls \in LineSeqs}
                  \cup {JoinLines(ls) \o <<"NL">> : ls \in LineSeqs}

\* The canonical block: the heading, then one bullet line per parent given.
Serialize(m, f) ==
    ParentsHeading1 \o <<"NL">>
        \o (IF m = Null THEN <<>> ELSE MotherLine(m) \o <<"NL">>)
        \o (IF f = Null THEN <<>> ELSE FatherLine(f) \o <<"NL">>)

\* Names for the canonical block: no pipe, bracket or line feed, no blank at
\* either end; the characters that the patterns give a meaning to are among them.
NameChars == {"a", "b", "#", "-", ":", "Ot", "Par"}

RoundTripNames ==
    {<<x>> : x \in NameChars}
        \cup {<<x, y>> : x \in NameChars, y \in NameChars}
        \cup {<<x, "SP", y>> : x \in NameChars, y \in NameChars}

RoundTripTexts == {Serialize(m, f) : m \in RoundTripNames, f \in RoundTripNames}

\* ------------------------------------------------------------ parser runs
NoResult == [mother |-> Null, father |-> Null, hasSection |-> FALSE]

NoTree == [nodes |-> <<>>, overflow |-> FALSE]

TreeIdle ==
    /\ people = <<>>
    /\ pc = "idle"
    /\ files = <<>>
    /\ idx = 0
    /\ failed = {}
    /\ tree = NoTree
    /\ rebuilt = FALSE
    /\ pcSecond = "idle"
    /\ idxSecond = 0

FlowIdle ==
    /\ fpc = "idle"
    /\ ffiles = <<>>
    /\ fidx = 0
    /\ nodes = <<>>
    /\ fpeople = <<>>
    /\ shown = <<>>
    /\ notice = "none"
    /\ ffailed = {}
    /\ clicked = Null
    /\ opened = <<>>
    /\ named = <<>>
    /\ nodeIds = <<>>

ParserIdle ==
    /\ content = <<>>
    /\ result = NoResult
    /\ parsed = FALSE

InitParse ==
    /\ content \in ParseTexts \cup RoundTripTexts
    /\ result = NoResult
    /\ parsed = FALSE
    /\ vault = <<>>
    /\ TreeIdle
    /\ FlowIdle

Parse ==
    /\ ~parsed
    /\ result' = parseParents(content)
    /\ parsed' = TRUE
    /\ UNCHANGED <<content, vault, treeVars, flowVars>>

NextParse == Parse

SpecParse == InitParse /\ [][NextParse]_vars

\* ------------------------------------------------------------ the corpus
Names == {<<"a">>, <<"YA">>}

\* The references a document's Mother and Father lines are drawn from: a
\* document's own name, another document's name, a name with no document
\* (<<"ca">>), a blank reference, no line at all (Null).
MotherRefs == {Null, <<"a">>, <<"YA">>, <<"SP">>}
FatherRefs == {Null, <<"YA">>, <<"ca">>}

NoSectionDoc == PlainLine \o <<"NL">> \o MotherLine(<<"a">>) \o <<"NL">>

\* A document whose Parents section is empty and whose next section, under a
\* heading of the same level, holds a Mother line.
LateMotherDoc ==
    ParentsHeading1 \o <<"NL">> \o OtherHeading1 \o <<"NL">> \o MotherLine(<<"a">>) \o <<"NL">>

DocContents ==
    {Serialize(m, f) : m \in MotherRefs, f \in FatherRefs}
        \cup {NoSectionDoc, LateMotherDoc}

Files == [basename : Names, content : DocContents]

Vaults == UNION {[1..n -> Files] : n \in 0..MaxFiles}

\* ------------------------------------------------------------ loadPeople
\* Boolean(x) of a string or null: null and the empty string are falsy.
Truthy(x) == x # Null /\ x # <<>>

Person(id, mother, father, hasSection) ==
    [id |-> id, name |-> id, mother |-> mother, father |-> father,
     children |-> <<>>, hasParentsSection |-> hasSection, gender |-> "unset"]

HasId(ps, id) == \E i \in 1..Len(ps) : ps[i].id = id

\* Mutant of Register: the hasSection test is dropped.
RegisterAlways(ps, file) ==
    LET r == parseParents(file.content)
    IN  Append(ps, Person(file.basename, r.mother, r.father, TRUE))

\* Stage 1, one file read: parse, push when the text has the section.
Register(ps, file) ==
    LET r == parseParents(file.content)
    IN  IF r.hasSection
        THEN Append(ps, Person(file.basename, r.mother, r.father, TRUE))
        ELSE ps

\* Mutant of CatchReadError: the failure discards what was registered so far.
CatchReadErrorResets(ps, file) == <<>>

\* Stage 1, one file whose read raised: the catch block logs.
CatchReadError(ps, file) == ps

\* Mutant of MentionedIds: the fathers are left out.
RECURSIVE MentionedMothers(_)
MentionedMothers(ps) ==
    IF ps = <<>> THEN <<>>
    ELSE (IF Truthy(ps[1].mother) THEN <<ps[1].mother>> ELSE <<>>)
          \o MentionedMothers(Tail(ps))

\* people.flatMap(p => [p.mother, p.father].filter(Boolean)), in order.
RECURSIVE MentionedIds(_)
MentionedIds(ps) ==
    IF ps = <<>> THEN <<>>
    ELSE (IF Truthy(ps[1].mother) THEN <<ps[1].mother>> ELSE <<>>)
          \o (IF Truthy(ps[1].father) THEN <<ps[1].father>> ELSE <<>>)
          \o MentionedIds(Tail(ps))

\* Mutant of Stub: the stub is flagged as declared.
StubDeclared(id) == Person(id, Null, Null, TRUE)

Stub(id) == Person(id, Null, Null, FALSE)

\* Stage 2: allMentionedIds.forEach(id => push a stub unless some person has id).
\* A Set keeps one entry per id; a second visit of an id finds its stub.
RECURSIVE AddMissingParents(_, _)
AddMissingParents(ps, ids) ==
    IF ids = <<>> THEN ps
    ELSE AddMissingParents(
             IF Truthy(ids[1]) /\ ~HasId(ps, ids[1]) THEN Append(ps, Stub(ids[1])) ELSE ps,
             Tail(ids))

\* new Map(people.map(p => [p.id, p])).get(id): the last person with the id; 0: none.
MapGet(ps, id) ==
    LET is == {i \in 1..Len(ps) : ps[i].id = id}
    IN  IF is = {} THEN 0 ELSE SetMax(is)

\* if (parentId && peopleMap.has(parentId)) parent.children.push(person.id)
PushChild(ps, parentId, childId) ==
    IF Truthy(parentId) /\ MapGet(ps, parentId) # 0
    THEN [ps EXCEPT ![MapGet(ps, parentId)].children = Append(@, childId)]
    ELSE ps

RECURSIVE LinkFrom(_, _)
LinkFrom(ps, i) ==
    IF i > Len(ps) THEN ps
    ELSE LinkFrom(PushChild(PushChild(ps, ps[i].mother, ps[i].id),
                            ps[i].father, ps[i].id),
                  i + 1)

\* Stage 3
buildFamilyLinks(ps) == LinkFrom(ps, 1)

\* What follows the loop: stage 2, stage 3, return this.people.
\* Mutant of Reconcile: the links are built before the stubs are created.
ReconcileLinksFirst(ps) == AddMissingParents(buildFamilyLinks(ps), MentionedIds(ps))

Reconcile(ps) == buildFamilyLinks(AddMissingParents(ps, MentionedIds(ps)))

\* Mutant of BeginLoad: the people of the build before are not dropped.
BeginLoadKeeps ==
    /\ files' = vault
    /\ failed' = {}
    /\ IF vault = <<>>
       THEN /\ people' = Reconcile(people)
            /\ idx' = 0
            /\ pc' = "done"
       ELSE /\ people' = people
            /\ idx' = 1
            /\ pc' = "reading"

\* loadPeople up to its first await (or to its return, with no file to read).
BeginLoad ==
    /\ files' = vault
    /\ failed' = {}
    /\ IF vault = <<>>
       THEN /\ people' = Reconcile(<<>>)
            /\ idx' = 0
            /\ pc' = "done"
       ELSE /\ people' = <<>>
            /\ idx' = 1
            /\ pc' = "reading"

Start ==
    /\ pc \in {"idle", "done"}
    /\ BeginLoad
    /\ UNCHANGED <<vault, viewVars, secondVars, parseVars, flowVars>>

\* The rest of the loop body after a read, then the next read or the return.
Continue(ps) ==
    IF idx = Len(files)
    THEN /\ people' = Reconcile(ps)
         /\ idx' = 0
         /\ pc' = "done"
    ELSE /\ people' = ps
         /\ idx' = idx + 1
         /\ pc' = "reading"

ReadOk ==
    /\ pc = "reading"
    /\ Continue(Register(people, files[idx]))
    /\ UNCHANGED <<vault, files, failed, viewVars, secondVars, parseVars, flowVars>>

ReadError ==
    /\ pc = "reading"
    /\ failed' = failed \cup {idx}
    /\ Continue(CatchReadError(people, files[idx]))
    /\ UNCHANGED <<vault, files, viewVars, secondVars, parseVars, flowVars>>

Init ==
    /\ vault \in Vaults
    /\ people = <<>>
    /\ pc = "idle"
    /\ files = <<>>
    /\ idx = 0
    /\ failed = {}
    /\ tree = NoTree
    /\ rebuilt = FALSE
    /\ pcSecond = "idle"
    /\ idxSecond = 0
    /\ ParserIdle
    /\ FlowIdle

Next == Start \/ ReadOk \/ ReadError

Spec == Init /\ [][Next]_vars

\* ------------------------------------------------------------ two invocations of loadPeople
\* people is a field of the plugin: every statement of loadPeople reads
\* this.people anew, so an invocation resumed after a read works on the array
\* the field holds then.  A second invocation (a second view opened, the
\* ribbon icon clicked again) starts while the first is suspended at a read;
\* its file list is the corpus, which no action of this specification changes.
StartSecond ==
    /\ pc = "reading"
    /\ pcSecond \in {"idle", "done"}
    /\ people' = <<>>
    /\ idxSecond' = 1
    /\ pcSecond' = "reading"
    /\ UNCHANGED <<vault, pc, files, idx, failed, viewVars, parseVars, flowVars>>

ReadOkSecond ==
    /\ pcSecond = "reading"
    /\ LET ps == Register(people, vault[idxSecond])
       IN  IF idxSecond = Len(vault)
           THEN /\ people' = Reconcile(ps)
                /\ idxSecond' = 0
                /\ pcSecond' = "done"
           ELSE /\ people' = ps
                /\ idxSecond' = idxSecond + 1
                /\ pcSecond' = "reading"
    /\ UNCHANGED <<vault, pc, files, idx, failed, viewVars, parseVars, flowVars>>

NextOverlap == Start \/ ReadOk \/ StartSecond \/ ReadOkSecond

SpecOverlap == Init /\ [][NextOverlap]_vars

\* ------------------------------------------------------------ createNodeId
\* str.charCodeAt(i) for the characters of a text, in order.
CharCodes(c) ==
    CASE c = "a"   -> <<97>>
      [] c = "b"   -> <<98>>
      [] c = "c"   -> <<99>>
      [] c = "ca"  -> <<1072>>
      [] c = "YA"  -> <<1071>>
      [] c = "s"   -> <<115>>
      [] c = "SP"  -> <<32>>
      [] c = "NL"  -> <<10>>
      [] c = "#"   -> <<35>>
      [] c = "*"   -> <<42>>
      [] c = "-"   -> <<45>>
      [] c = "!"   -> <<33>>
      [] c = "~"   -> <<126>>
      [] c = ":"   -> <<58>>
      [] c = "["   -> <<91>>
      [] c = "]"   -> <<93>>
      [] c = "|"   -> <<124>>
      [] c = "Par" -> <<1056, 1086, 1076, 1080, 1090, 1077, 1083, 1080>>
      [] c = "par" -> <<1088, 1086, 1076, 1080, 1090, 1077, 1083, 1080>>
      [] c = "Mat" -> <<1052, 1072, 1090, 1100>>
      [] c = "Ot"  -> <<1054, 1090, 1077, 1094>>

RECURSIVE CodeUnits(_)
CodeUnits(n) == IF n = <<>> THEN <<>> ELSE CharCodes(Head(n)) \o CodeUnits(Tail(n))

\* A 32-bit integer is kept as its two 16-bit halves <<high, low>>.
Half == 65536

\* hash = ((hash << 5) - hash) + chr; hash |= 0
HashStep(h, chr) ==
    LET low == 31 * h[2] + chr
    IN  <<(31 * h[1] + (low \div Half)) % Half, low % Half>>

\* Math.abs of the signed value of the halves.
Abs32(h) ==
    IF h[1] < Half \div 2 THEN h
    ELSE IF h[2] = 0 THEN <<(Half - h[1]) % Half, 0>>
    ELSE <<Half - 1 - h[1], Half - h[2]>>

RECURSIVE HashFrom(_, _)
HashFrom(h, cs) == IF cs = <<>> THEN h ELSE HashFrom(HashStep(h, Head(cs)), Tail(cs))

hashCode(n) == Abs32(HashFrom(<<0, 0>>, CodeUnits(n)))

\* encodeURIComponent(c).replace(/%20/g, '_').replace(/[^a-zA-Z0-9_]/g, '')
EncodeChar(c) ==
    CASE c \in {"a", "b", "c", "s"} -> <<c>>
      [] c = "SP"  -> <<"_">>
      [] c \in {"*", "-", "!", "~"} -> <<>>
      [] c = "NL"  -> <<"0", "A">>
      [] c = "#"   -> <<"2", "3">>
      [] c = ":"   -> <<"3", "A">>
      [] c = "["   -> <<"5", "B">>
      [] c = "]"   -> <<"5", "D">>
      [] c = "|"   -> <<"7", "C">>
      [] c = "ca"  -> <<"D0B0">>
      [] c = "YA"  -> <<"D0AF">>
      [] c = "Par" -> <<"D0A0D0BED0B4D0B8D182D0B5D0BBD0B8">>
      [] c = "par" -> <<"D180D0BED0B4D0B8D182D0B5D0BBD0B8">>
      [] c = "Mat" -> <<"D09CD0B0D182D18C">>
      [] c = "Ot"  -> <<"D09ED182D0B5D186">>

RECURSIVE EncodeName(_)
EncodeName(n) == IF n = <<>> THEN <<>> ELSE EncodeChar(Head(n)) \o EncodeName(Tail(n))

\* `${base}_${hashCode(name)}`: <<base, hash>>
createNodeId(n) == <<EncodeName(Trim(n)), hashCode(n)>>

\* ------------------------------------------------------------ createNodeId runs
\* The longest name createNodeId is run on.
MaxNameLen == 2

\* The characters of those names: letters, Latin and Cyrillic, a blank, and
\* marks that encodeURIComponent leaves as they are.
IdChars == {"a", "ca", "YA", "SP", "-", "*", "!", "~"}

IdNames == UNION {[1..n -> IdChars] : n \in 1..MaxNameLen}

\* createNodeId is applied to two names: the name of a child and the name of
\* a parent met during one build.
InitId ==
    /\ named \in IdNames \X IdNames
    /\ nodeIds = <<>>
    /\ fpc = "idle"
    /\ ffiles = <<>>
    /\ fidx = 0
    /\ nodes = <<>>
    /\ fpeople = <<>>
    /\ shown = <<>>
    /\ notice = "none"
    /\ ffailed = {}
    /\ clicked = Null
    /\ opened = <<>>
    /\ vault = <<>>
    /\ TreeIdle
    /\ ParserIdle

CreateNodeIds ==
    /\ nodeIds = <<>>
    /\ nodeIds' = <<createNodeId(named[1]), createNodeId(named[2])>>
    /\ UNCHANGED <<named, vault, fpc, ffiles, fidx, nodes, fpeople, shown, notice,
                   ffailed, clickVars, parseVars, treeVars>>

NextId == CreateNodeIds

SpecId == InitId /\ [][NextId]_vars

\* ------------------------------------------------------------ buildFamilyGraph
\* content.match(/^(#+)\s*Родители/m): 0, or the index of the first "#" of
\* the leftmost match (the word in exactly this letter case).
HeadingMatchAt(t, p) ==
    /\ (p = 1 \/ At(t, p - 1) = "NL")
    /\ At(t, p) = "#"
    /\ At(t, SkipWs(t, SkipHashes(t, p))) = "Par"

MatchHeading(t) ==
    LET ps == {p \in 1..Len(t) : HeadingMatchAt(t, p)}
    IN  IF ps = {} THEN 0 ELSE SetMin(ps)

\* content.indexOf(sub), 1-based (sub occurs in t)
IndexOf(t, sub) ==
    SetMin({i \in 1..Len(t) : i + Len(sub) - 1 <= Len(t)
                               /\ SubSeq(t, i, i + Len(sub) - 1) = sub})

\* section.split(/\r?\n/)
RECURSIVE SplitLines(_, _)
SplitLines(t, line) ==
    IF t = <<>> THEN <<line>>
    ELSE IF Head(t) = "NL" THEN <<line>> \o SplitLines(Tail(t), <<>>)
    ELSE SplitLines(Tail(t), Append(line, Head(t)))

\* new RegExp(`^#{${headingLevel}}\s+`).test(line): in the template literal
\* \s is the letter s, so the pattern is ^#{headingLevel}s+
BreakTest(line, headingLevel) ==
    /\ \A i \in 1..headingLevel : At(line, i) = "#"
    /\ At(line, headingLevel + 1) = "s"

\* /^#+\s*Родители/.test(line)
ParentsHeadingTest(line) ==
    /\ At(line, 1) = "#"
    /\ At(line, SkipWs(line, SkipHashes(line, 1))) = "Par"

RECURSIVE SkipNotClose(_, _)
SkipNotClose(l, i) ==
    IF i > Len(l) \/ l[i] = "]" THEN i ELSE SkipNotClose(l, i + 1)

\* line.match(/^\s*-\s*<label>\s*:\s*\[\[([^\]]+)\]\]/i): Null, or group 1
GraphParentName(l, label) ==
    LET d == SkipWs(l, 1)
    IN  IF At(l, d) # "-" THEN Null
        ELSE LET w == SkipWs(l, d + 1)
             IN  IF At(l, w) # label THEN Null
                 ELSE LET c == SkipWs(l, w + 1)
                      IN  IF At(l, c) # ":" THEN Null
                          ELSE LET o == SkipWs(l, c + 1)
                                   e == SkipNotClose(l, o + 2)
                               IN  IF /\ At(l, o) = "[" /\ At(l, o + 1) = "["
                                      /\ e > o + 2
                                      /\ At(l, e) = "]" /\ At(l, e + 1) = "]"
                                   THEN SubSeq(l, o + 2, e - 1)
                                   ELSE Null

\* nodes.add(...) on a Set
AddNode(ns, n) == IF \E i \in 1..Len(ns) : ns[i] = n THEN ns ELSE Append(ns, n)

NameNode(n) == [id |-> createNodeId(n), label |-> n]

\* the loop over the lines after the heading: [nodes, person]
RECURSIVE ScanLines(_, _, _, _)
ScanLines(ls, headingLevel, ns, person) ==
    IF ls = <<>> THEN [nodes |-> ns, person |-> person]
    ELSE IF BreakTest(ls[1], headingLevel) /\ ~ParentsHeadingTest(ls[1])
    THEN [nodes |-> ns, person |-> person]
    ELSE LET motherName == GraphParentName(ls[1], "Mat")
             fatherName == GraphParentName(ls[1], "Ot")
             ns1 == IF motherName # Null THEN AddNode(ns, NameNode(motherName)) ELSE ns
             ns2 == IF fatherName # Null THEN AddNode(ns1, NameNode(fatherName)) ELSE ns1
             p1  == IF motherName # Null
                    THEN [person EXCEPT !.motherId = createNodeId(motherName)] ELSE person
             p2  == IF fatherName # Null
                    THEN [p1 EXCEPT !.fatherId = createNodeId(fatherName)] ELSE p1
         IN  ScanLines(Tail(ls), headingLevel, ns2, p2)

\* the first pass on one file that was read: [nodes, people]
GraphFile(ns, ps, file) ==
    LET t == file.content
        p == MatchHeading(t)
    IN  IF p = 0 THEN [nodes |-> ns, people |-> ps]
        ELSE LET headingLevel == SkipHashes(t, p) - p
                 matched == SubSeq(t, p, SkipWs(t, SkipHashes(t, p)))
                 startIndex == IndexOf(t, matched) + Len(matched)
                 section == SubSeq(t, startIndex, Len(t))
                 childId == createNodeId(file.basename)
                 scan == ScanLines(SplitLines(section, <<>>), headingLevel,
                                   AddNode(ns, NameNode(file.basename)),
                                   [id |-> childId, motherId |-> Null, fatherId |-> Null])
             IN  [nodes |-> scan.nodes, people |-> Append(ps, scan.person)]

\* `mid_${person.id}`: the id of the person behind the prefix
MidId(id) == <<<<"mid">> \o id[1], id[2]>>

MidNode(id) == [id |-> MidId(id), label |-> <<".">>]

Link(from, to) == [from |-> from, to |-> to]

\* the second pass on one person: [nodes, links]
PersonLinks(ns, person) ==
    IF person.motherId # Null /\ person.fatherId # Null
    THEN [nodes |-> AddNode(ns, MidNode(person.id)),
          links |-> << Link(person.motherId, MidId(person.id)),
                       Link(person.fatherId, MidId(person.id)),
                       Link(MidId(person.id), person.id) >>]
    ELSE [nodes |-> ns,
          links |-> (IF person.motherId # Null
                     THEN <<Link(person.motherId, person.id)>> ELSE <<>>)
                    \o (IF person.fatherId # Null
                        THEN <<Link(person.fatherId, person.id)>> ELSE <<>>)]

RECURSIVE AllLinks(_, _, _)
AllLinks(ns, ps, links) ==
    IF ps = <<>> THEN [nodes |-> ns, links |-> links]
    ELSE LET r == PersonLinks(ns, ps[1])
         IN  AllLinks(r.nodes, Tail(ps), links \o r.links)

\* what buildFamilyGraph returns after its loop: '' (<<>>), or the diagram
Diagram(ns, ps) ==
    LET r == AllLinks(ns, ps, <<>>)
    IN  IF r.nodes = <<>> THEN <<>>
        ELSE <<[header |-> "flowchart TD", nodes |-> r.nodes, links |-> r.links]>>

\* openMermaidView with the diagram built: the Notice, or the view
Present(d) ==
    IF d = <<>>
    THEN /\ notice' = "No notes found"
         /\ shown' = <<>>
         /\ fpc' = "empty"
    ELSE /\ notice' = "none"
         /\ shown' = d
         /\ fpc' = "rendered"

\* openMermaidView, buildFamilyGraph up to its first await
FlowStart ==
    /\ fpc \in {"idle", "rendered", "empty", "failed"}
    /\ ffiles' = vault
    /\ ffailed' = {}
    /\ nodes' = <<>>
    /\ fpeople' = <<>>
    /\ IF vault = <<>>
       THEN /\ fidx' = 0
            /\ Present(Diagram(<<>>, <<>>))
       ELSE /\ fidx' = 1
            /\ fpc' = "reading"
            /\ shown' = <<>>
            /\ notice' = "none"
    /\ clicked' = Null
    /\ opened' = <<>>
    /\ UNCHANGED <<vault, idVars, parseVars, treeVars>>

FlowReadOk ==
    /\ fpc = "reading"
    /\ LET r == GraphFile(nodes, fpeople, ffiles[fidx])
       IN  /\ fpeople' = r.people
           /\ IF fidx = Len(ffiles)
              THEN /\ nodes' = AllLinks(r.nodes, r.people, <<>>).nodes
                   /\ fidx' = 0
                   /\ Present(Diagram(r.nodes, r.people))
              ELSE /\ nodes' = r.nodes
                   /\ fidx' = fidx + 1
                   /\ UNCHANGED <<fpc, shown, notice>>
    /\ UNCHANGED <<vault, ffiles, ffailed, clickVars, idVars, parseVars, treeVars>>

\* the read raises: no handler in buildFamilyGraph, the catch of
\* openMermaidView shows the error
FlowReadError ==
    /\ fpc = "reading"
    /\ ffailed' = ffailed \cup {fidx}
    /\ fpc' = "failed"
    /\ notice' = "Error"
    /\ fidx' = 0
    /\ UNCHANGED <<vault, ffiles, nodes, fpeople, shown, clickVars, idVars, parseVars, treeVars>>

\* The folder of the document at position k of the corpus: 0 for the vault
\* root, where the first document lies; each later document lies in a folder
\* of its own.
FolderOf(k) == k - 1

\* Mutant of FindNote: the note is looked up by the path <name>.md.
FindNoteAtRoot(noteName) ==
    LET found == {k \in 1..Len(vault) : vault[k].basename = noteName /\ FolderOf(k) = 0}
    IN  IF found = {} THEN 0 ELSE SetMin(found)

\* vault.getMarkdownFiles().find(f => f.basename === noteName): the position
\* of the file found, 0 for undefined
FindNote(noteName) ==
    LET found == {k \in 1..Len(vault) : vault[k].basename = noteName}
    IN  IF found = {} THEN 0 ELSE SetMin(found)

\* The click listener of a node of the diagram drawn: the text of the node,
\* trimmed, is the name of the note to open.
ClickNode ==
    /\ fpc = "rendered"
    /\ \E n \in 1..Len(shown[1].nodes) :
          LET rawName  == Trim(shown[1].nodes[n].label)
              noteFile == FindNote(rawName)
          IN  /\ clicked' = shown[1].nodes[n].label
              /\ IF rawName = <<>>
                 THEN /\ notice' = "Empty label on node"
                      /\ opened' = <<>>
                 ELSE IF noteFile # 0
                 THEN /\ opened' = <<noteFile>>
                      /\ notice' = "none"
                 ELSE /\ notice' = "Note not found"
                      /\ opened' = <<>>
    /\ UNCHANGED <<vault, fpc, ffiles, fidx, nodes, fpeople, shown, ffailed,
                   idVars, parseVars, treeVars>>

InitFlow ==
    /\ vault \in Vaults
    /\ FlowIdle
    /\ TreeIdle
    /\ ParserIdle

NextFlow == FlowStart \/ FlowReadOk \/ FlowReadError \/ ClickNode

SpecFlow == InitFlow /\ [][NextFlow]_vars

\* ------------------------------------------------------------ FamilyTreeView
\* toLowerCase on one code unit: the Latin and the Cyrillic capitals.
ToLowerUnit(u) ==
    IF u >= 65 /\ u <= 90 THEN u + 32
    ELSE IF u >= 1040 /\ u <= 1071 THEN u + 32
    ELSE IF u >= 1024 /\ u <= 1039 THEN u + 80
    ELSE u

\* Mutant of EndsFeminine: only the first of the two endings is tested.
EndsFeminineFirst(name) ==
    LET cs == CodeUnits(name)
    IN  cs # <<>> /\ ToLowerUnit(cs[Len(cs)]) = 1072

\* nameLower.endsWith('\u0430') || nameLower.endsWith('\u044f')
EndsFeminine(name) ==
    LET cs == CodeUnits(name)
    IN  cs # <<>> /\ ToLowerUnit(cs[Len(cs)]) \in {1072, 1103}

\* Mutant of determineGender: the father test comes before the mother test.
determineGenderFatherFirst(person, allPeople) ==
    LET isMother == \E i \in 1..Len(allPeople) : allPeople[i].mother = person.id
        isFather == \E i \in 1..Len(allPeople) : allPeople[i].father = person.id
    IN  IF isFather THEN "male"
        ELSE IF isMother THEN "female"
        ELSE IF EndsFeminine(person.name) THEN "female" ELSE "male"

determineGender(person, allPeople) ==
    LET isMother == \E i \in 1..Len(allPeople) : allPeople[i].mother = person.id
        isFather == \E i \in 1..Len(allPeople) : allPeople[i].father = person.id
    IN  IF isMother /\ isFather
        THEN (IF person.gender # "unset" THEN person.gender ELSE "female")
        ELSE IF isMother THEN "female"
        ELSE IF isFather THEN "male"
        ELSE IF EndsFeminine(person.name) THEN "female" ELSE "male"

\* people.forEach(person => { if (!person.gender) person.gender = ... })
RECURSIVE InferGenders(_, _)
InferGenders(ps, i) ==
    IF i > Len(ps) THEN ps
    ELSE InferGenders(IF ps[i].gender = "unset"
                      THEN [ps EXCEPT ![i].gender = determineGender(ps[i], ps)]
                      ELSE ps,
                      i + 1)

\* Mutant of findRootPerson: the first childless person, with or without parents.
findRootPersonFirstChildless(ps) ==
    LET candidates == {i \in 1..Len(ps) : ps[i].children = <<>>}
    IN  IF candidates # {} THEN SetMin(candidates)
        ELSE IF ps # <<>> THEN 1
        ELSE 0

\* findRootPerson: the index of the person returned, 0 for null
findRootPerson(ps) ==
    LET candidates == {i \in 1..Len(ps) : ps[i].children = <<>>}
        declared   == {i \in candidates : Truthy(ps[i].mother) \/ Truthy(ps[i].father)}
    IN  IF declared # {} THEN SetMin(declared)
        ELSE IF candidates # {} THEN SetMin(candidates)
        ELSE IF ps # <<>> THEN 1
        ELSE 0

\* The data of a node of the hierarchy: the object buildNode returns for the
\* root, a Person object of people, or a string of a children array.
RootData(ps, i)   == [kind |-> "root", idx |-> i, id |-> ps[i].id]
PersonData(ps, i) == [kind |-> "person", idx |-> i, id |-> ps[i].id]
IdData(id)        == [kind |-> "id", idx |-> 0, id |-> id]

\* buildNode: the parents that peopleMap holds, mother first
ParentsOf(ps, i) ==
    (IF Truthy(ps[i].mother) /\ MapGet(ps, ps[i].mother) # 0
     THEN <<PersonData(ps, MapGet(ps, ps[i].mother))>> ELSE <<>>)
        \o (IF Truthy(ps[i].father) /\ MapGet(ps, ps[i].father) # 0
            THEN <<PersonData(ps, MapGet(ps, ps[i].father))>> ELSE <<>>)

\* Mutant of NodeChildren: the parents of a parent are expanded in turn.
NodeChildrenUpward(ps, d) ==
    IF d.kind \in {"root", "person"} THEN ParentsOf(ps, d.idx) ELSE <<>>

\* d => d.children on the data of a node: the parents for the object that
\* buildNode returned, the children array (strings) for a Person object,
\* undefined for a string.
NodeChildren(ps, d) ==
    IF d.kind = "root" THEN ParentsOf(ps, d.idx)
    ELSE IF d.kind = "person"
    THEN [k \in 1..Len(ps[d.idx].children) |-> IdData(ps[d.idx].children[k])]
    ELSE <<>>

\* The most nodes a traversal is followed for.
MaxNodes == 16

\* d3.hierarchy: the loop "while (node = nodes.pop())" over the stack of
\* nodes, each node pushing the nodes of its children, last child first.
\* overflow: the loop was still running after MaxNodes nodes.
RECURSIVE Visit(_, _, _, _)
Visit(ps, stack, out, fuel) ==
    IF stack = <<>> THEN [nodes |-> out, overflow |-> FALSE]
    ELSE IF fuel = 0 THEN [nodes |-> out, overflow |-> TRUE]
    ELSE LET node   == stack[Len(stack)]
             childs == NodeChildren(ps, node.data)
             pushed == [k \in 1..Len(childs) |->
                           [data |-> childs[Len(childs) + 1 - k], depth |-> node.depth + 1]]
         IN  Visit(ps, SubSeq(stack, 1, Len(stack) - 1) \o pushed,
                   Append(out, node), fuel - 1)

buildHierarchy(person, allPeople) ==
    Visit(allPeople, <<[data |-> RootData(allPeople, person), depth |-> 0]>>, <<>>, MaxNodes)

\* drawTree up to its await: the container is emptied, loadPeople starts.
Open ==
    /\ pc \in {"idle", "drawn", "nodata"}
    /\ tree' = NoTree
    /\ rebuilt' = (pc # "idle")
    /\ BeginLoad
    /\ UNCHANGED <<vault, secondVars, parseVars, flowVars>>

\* drawTree after loadPeople has returned: the empty test, the genders, the
\* root, the hierarchy that is laid out and drawn.
Draw ==
    /\ pc = "done"
    /\ IF people = <<>>
       THEN /\ pc' = "nodata"
            /\ UNCHANGED <<people, tree>>
       ELSE LET gendered == InferGenders(people, 1)
            IN  /\ people' = gendered
                /\ tree' = buildHierarchy(findRootPerson(gendered), gendered)
                /\ pc' = "drawn"
    /\ UNCHANGED <<vault, files, idx, failed, rebuilt, secondVars, parseVars, flowVars>>

RemoveAt(v, k) == SubSeq(v, 1, k - 1) \o SubSeq(v, k + 1, Len(v))

\* Between two builds the user deletes a document of the corpus.
RemoveFile ==
    /\ pc \in {"drawn", "nodata"}
    /\ \E k \in 1..Len(vault) : vault' = RemoveAt(vault, k)
    /\ UNCHANGED <<treeVars, parseVars, flowVars>>

InitTree ==
    /\ vault \in Vaults
    /\ TreeIdle
    /\ ParserIdle
    /\ FlowIdle

NextTree == Open \/ ReadOk \/ ReadError \/ Draw \/ RemoveFile

SpecTree == InitTree /\ [][NextTree]_vars

\* ------------------------------------------------------------ flowchart properties
\* C8: in the flowchart variant a read that raises does not abort the build:
\* with another document that has the Parents heading in the corpus, the
\* diagram is still produced and rendered.
C8_FlowReadErrorKeepsBuild ==
    (/\ ffailed # {}
     /\ \E d \in 1..Len(ffiles) : d \notin ffailed /\ MatchHeading(ffiles[d].content) # 0)
        => (fpc = "rendered" /\ shown # <<>>)

ShownNodeIds == {shown[1].nodes[n].id : n \in 1..Len(shown[1].nodes)}

ShownLinks == {shown[1].links[l] : l \in 1..Len(shown[1].links)}

\* C24: the flowchart shown has a node for every document with a Parents
\* section and for every parent referenced, and for each parent P declared
\* by a child C the edge from the node of P to the node of C and no edge
\* from C to P (unless P declares C its parent in turn), also when C declares
\* both a mother and a father.
C24_ParentToChildEdges ==
    fpc = "rendered" =>
        /\ \A k \in 1..Len(ffiles) :
              parseParents(ffiles[k].content).hasSection
                  => createNodeId(ffiles[k].basename) \in ShownNodeIds
        /\ \A k \in 1..Len(fpeople) :
              \A parent \in {fpeople[k].motherId, fpeople[k].fatherId} \ {Null} :
                  /\ parent \in ShownNodeIds
                  /\ Link(parent, fpeople[k].id) \in ShownLinks
                  /\ Link(fpeople[k].id, parent) \in ShownLinks
                        => \E j \in 1..Len(fpeople) :
                              /\ fpeople[j].id = parent
                              /\ fpeople[k].id \in {fpeople[j].motherId, fpeople[j].fatherId}

HasParentsHeading(file) == MatchHeading(file.content) # 0

\* The lines up to the first heading line, that line left out.
RECURSIVE UntilHeading(_)
UntilHeading(ls) ==
    IF ls = <<>> \/ At(ls[1], 1) = "#" THEN <<>>
    ELSE <<ls[1]>> \o UntilHeading(Tail(ls))

\* The lines of the Parents section of a text with the heading: from the
\* line after the heading to the next heading line.
FlowSectionLines(t) ==
    UntilHeading(Tail(SplitLines(SubSeq(t, MatchHeading(t), Len(t)), <<>>)))

\* C27: the flowchart build stops scanning a document at the heading line
\* that follows the Parents heading: a mother or a father recorded for a
\* document comes from a line of its Parents section.
C27_ScanStopsAtNextHeading ==
    fpc = "rendered" =>
        LET docs == SelectSeq(ffiles, HasParentsHeading)
        IN  \A k \in 1..Len(fpeople) :
                LET ls == FlowSectionLines(docs[k].content)
                IN  /\ fpeople[k].motherId # Null
                          => \E l \in 1..Len(ls) : GraphParentName(ls[l], "Mat") # Null
                    /\ fpeople[k].fatherId # Null
                          => \E l \in 1..Len(ls) : GraphParentName(ls[l], "Ot") # Null

\* C28: createNodeId gives two different names two different ids.
C28_IdsDiffer ==
    (nodeIds # <<>> /\ named[1] # named[2]) => nodeIds[1] # nodeIds[2]

\* ------------------------------------------------------------ loadPeople properties
Range(q) == {q[i] : i \in 1..Len(q)}

Count(q, x) == Cardinality({i \in 1..Len(q) : q[i] = x})

Entities == 1..Len(people)

ParentRefs(p) == {x \in {p.mother, p.father} : Truthy(x)}

\* The documents of this build that were read, and those of them with a section.
ReadDocs == {d \in 1..Len(files) : d \notin failed}

DeclaredDocs == {d \in ReadDocs : parseParents(files[d].content).hasSection}

DeclaredNames == {files[d].basename : d \in DeclaredDocs}

ReferencedIds ==
    UNION {ParentRefs(parseParents(files[d].content)) : d \in DeclaredDocs}

\* C1: after loadPeople every motherId/fatherId that is present is the id of
\* an entity of the set (the empty id, falsy like null for every reader of
\* the field, counts as absent).
C1_NoDanglingParent ==
    pc = "done" =>
        \A i \in Entities : \A x \in ParentRefs(people[i]) : HasId(people, x)

C1_Witness ==
    /\ pc = "done"
    /\ \E i, j \in Entities :
          /\ Truthy(people[i].father)
          /\ people[j].id = people[i].father
          /\ ~people[j].hasParentsSection

\* C2: no two entities of the set loadPeople returns have the same id.
C2_UniqueIds ==
    pc = "done" =>
        \A i, j \in Entities : i # j => people[i].id # people[j].id

\* C3: after a build every parent reference of e names an entity whose
\* children list holds e.id exactly once, and no children list has a duplicate.
C3_ChildListedOnce ==
    pc = "done" =>
        /\ \A i, k \in Entities : \A x \in ParentRefs(people[i]) :
              people[k].id = x
                  => Count(people[k].children, people[i].id) = 1
        /\ \A k \in Entities : \A c \in Range(people[k].children) :
              Count(people[k].children, c) = 1

\* C4: buildFamilyLinks run again on the set it has linked changes no
\* children list.
C4_LinkIdempotent ==
    pc = "done" =>
        \A k \in Entities :
            buildFamilyLinks(people)[k].children = people[k].children

\* C5: the ids of the set are exactly the base names of the documents with a
\* section together with the parent ids those documents reference, and an
\* entity flagged as declared comes from a document with a section.
C5_EntitySetExact ==
    pc = "done" =>
        /\ {people[i].id : i \in Entities} = DeclaredNames \cup ReferencedIds
        /\ \A i \in Entities : people[i].hasParentsSection => people[i].id \in DeclaredNames

C5_Witness ==
    /\ pc = "done"
    /\ people # <<>>
    /\ \E d \in ReadDocs :
          /\ d \notin DeclaredDocs
          /\ ~HasId(people, files[d].basename)
    /\ \E i \in Entities : ~people[i].hasParentsSection

\* C6: every referenced parent id that no document with a section registers
\* is exactly one stub: not declared, no parents, and its children hold every
\* entity that references it.
C6_StubForEachMissingParent ==
    pc = "done" =>
        \A x \in ReferencedIds \ DeclaredNames :
            /\ Cardinality({i \in Entities : people[i].id = x}) = 1
            /\ \A i \in Entities : people[i].id = x =>
                  /\ ~people[i].hasParentsSection
                  /\ people[i].mother = Null
                  /\ people[i].father = Null
                  /\ \A j \in Entities :
                        x \in ParentRefs(people[j])
                            => people[j].id \in Range(people[i].children)

C6_Witness ==
    /\ pc = "done"
    /\ \E i \in Entities : \E d \in ReadDocs :
          /\ ~people[i].hasParentsSection
          /\ d \notin DeclaredDocs
          /\ files[d].basename = people[i].id
          /\ people[i].children # <<>>

\* C7: a read that raises does not end the build: the set returned is the
\* one a build over the corpus without the failing documents returns.
RECURSIVE RegisterAll(_)
RegisterAll(fs) ==
    IF fs = <<>> THEN <<>>
    ELSE Register(RegisterAll(SubSeq(fs, 1, Len(fs) - 1)), fs[Len(fs)])

RECURSIVE Without(_, _)
Without(fs, drop) ==
    IF fs = <<>> THEN <<>>
    ELSE Without(SubSeq(fs, 1, Len(fs) - 1), drop)
             \o (IF Len(fs) \in drop THEN <<>> ELSE <<fs[Len(fs)]>>)

C7_ReadErrorSkipsOnlyThatFile ==
    pc = "done" => people = Reconcile(RegisterAll(Without(files, failed)))

C7_Witness ==
    /\ pc = "done"
    /\ people # <<>>
    /\ \E d \in failed : parseParents(files[d].content).hasSection
    /\ DeclaredDocs # {}

\* C17: after linking no entity's children list holds the entity's own id,
\* also for a document that names itself as its mother or father.
C17_NoSelfChild ==
    pc = "done" =>
        \A i \in Entities : people[i].id \notin Range(people[i].children)

\* C21: when a second invocation of loadPeople has started while the first
\* was suspended at a read, then once both have returned the entity store
\* they return is the one a build running alone over the corpus returns: no
\* registration lost, none duplicated.
C21_OverlapReturnsSoloSet ==
    (pc = "done" /\ pcSecond = "done") => people = Reconcile(RegisterAll(vault))

\* ------------------------------------------------------------ FamilyTreeView properties
ReferencedAsMother(i) == \E j \in Entities : people[j].mother = people[i].id

ReferencedAsFather(i) == \E j \in Entities : people[j].father = people[i].id

\* The name ends in a letter whose lower case is one of the two feminine
\* endings: of the letters of the model, the small а and the capital Я.
FeminineEnding(name) == name # <<>> /\ name[Len(name)] \in {"ca", "YA"}

\* C14: an entity that is some entity's mother is female, also when it is
\* some entity's father as well; an entity that is only a father is male
\* whatever its name; the name decides for no referenced entity.
C14_GenderPrecedence ==
    pc = "drawn" =>
        \A i \in Entities :
            /\ ReferencedAsMother(i) => people[i].gender = "female"
            /\ (ReferencedAsFather(i) /\ ~ReferencedAsMother(i))
                  => people[i].gender = "male"

C14_Witness ==
    /\ pc = "drawn"
    /\ \E i, j, k \in Entities :
          /\ j # k
          /\ people[j].mother = people[i].id
          /\ people[k].father = people[i].id
          /\ people[i].gender = "female"
    /\ \E i \in Entities :
          /\ ReferencedAsFather(i)
          /\ ~ReferencedAsMother(i)
          /\ FeminineEnding(people[i].name)
          /\ people[i].gender = "male"

\* C15: after the gender step every entity is male or female and has a name
\* to lower-case; an entity that nobody references as mother or father is
\* female exactly when its name, lower-cased, ends in а or я.
C15_GenderTotalAndFallback ==
    pc = "drawn" =>
        \A i \in Entities :
            /\ people[i].gender \in {"male", "female"}
            /\ people[i].name # Null
            /\ (~ReferencedAsMother(i) /\ ~ReferencedAsFather(i))
                  => (people[i].gender = "female" <=> FeminineEnding(people[i].name))

C15_Witness ==
    /\ pc = "drawn"
    /\ \E i, k \in Entities :
          /\ ~ReferencedAsMother(i) /\ ~ReferencedAsFather(i)
          /\ ~ReferencedAsMother(k) /\ ~ReferencedAsFather(k)
          /\ people[i].gender = "female"
          /\ people[k].gender = "male"

\* C16: the hierarchy built from the root is finite for every linked set: the
\* traversal ends, with every node at most two levels from the root, also
\* when the root is its own parent or two entities are each other's parent.
C16_HierarchyFinite ==
    pc = "drawn" =>
        /\ ~tree.overflow
        /\ tree.nodes # <<>>
        /\ \A n \in 1..Len(tree.nodes) : tree.nodes[n].depth <= 2

C16_Witness ==
    /\ pc = "drawn"
    /\ ~tree.overflow
    /\ LET r == tree.nodes[1].data.idx
       IN  \/ people[r].mother = people[r].id
           \/ \E k \in Entities :
                 /\ k # r
                 /\ people[r].mother = people[k].id
                 /\ people[k].mother = people[r].id
    /\ Len(tree.nodes) >= 3

\* C18: with no entity to draw (empty corpus, or no document with the
\* section) the tree view draws nothing and the user is shown a notice.
C18_EmptyResultNotice ==
    pc = "nodata" => (tree = NoTree /\ notice # "none")

\* C20: the set a build returns after an earlier build has completed is the
\* set a first build over the corpus as it is now returns: entities, children
\* lists and genders are those of this build alone.
C20_BuildFromCorpusAlone ==
    (pc = "done" /\ rebuilt) =>
        people = Reconcile(RegisterAll(Without(vault, failed)))

C20_Witness ==
    /\ pc = "done"
    /\ rebuilt
    /\ \E i \in Entities : people[i].children # <<>>

\* The positions in the hierarchy of the tree-children of the node at
\* position n (the nodes are listed parent first, each with its depth).
TreeChildren(n) ==
    {m \in (n + 1)..Len(tree.nodes) :
        /\ tree.nodes[m].depth = tree.nodes[n].depth + 1
        /\ \A k \in (n + 1)..(m - 1) : tree.nodes[k].depth > tree.nodes[n].depth}

\* The entity a node of the hierarchy stands for, 0 for none.
EntityOf(n) ==
    LET d == tree.nodes[n].data
    IN  IF d.kind = "id" THEN MapGet(people, d.id) ELSE d.idx

\* The entities that are a parent of an entity of S.
ParentsIn(S) ==
    {j \in Entities : \E i \in S : j \in {MapGet(people, people[i].mother),
                                           MapGet(people, people[i].father)}}

RECURSIVE AncestorsWithin(_, _)
AncestorsWithin(S, steps) ==
    IF steps = 0 THEN {}
    ELSE ParentsIn(S) \cup AncestorsWithin(ParentsIn(S), steps - 1)

\* No entity is its own ancestor.
AcyclicParents == \A i \in Entities : i \notin AncestorsWithin({i}, Len(people))

\* C22: in the hierarchy drawn for a set without a cycle of parent links,
\* the tree-children of every node, at every depth, are exactly the existing
\* mother and father entities of the entity the node stands for (so the
\* ancestors of the root appear, and no node has its graph-children below it).
C22_HierarchyExpandsUpward ==
    (pc = "drawn" /\ AcyclicParents) =>
        \A n \in 1..Len(tree.nodes) :
            LET e    == EntityOf(n)
                want == IF e = 0 THEN <<>> ELSE ParentsOf(people, e)
                kids == TreeChildren(n)
            IN  /\ e # 0
                /\ {tree.nodes[m].data.id : m \in kids} = {want[k].id : k \in 1..Len(want)}
                /\ Cardinality(kids) = Len(want)

\* The entities without children, and those of them with a parent declared.
Childless == {i \in Entities : Len(people[i].children) = 0}

ChildlessWithParent ==
    {i \in Childless : people[i].mother \notin {Null, <<>>} \/ people[i].father \notin {Null, <<>>}}

Unlinked(ps) ==
    [i \in 1..Len(ps) |-> [ps[i] EXCEPT !.children = <<>>, !.gender = "unset"]]

ChildrenOf(ps) == [i \in 1..Len(ps) |-> ps[i].children]

\* C25: the stages of one build run in order.  While documents are read no
\* entity has a child or a gender and nothing is drawn; when loadPeople has
\* returned, the children are those that one run of buildFamilyLinks over
\* all the entities, stubs included, produces, and still no gender is set;
\* the genders, the root and the hierarchy come after that and leave the
\* children as they are.
C25_StagesInOrder ==
    /\ pc = "reading" => (people = Unlinked(people) /\ tree = NoTree)
    /\ pc = "done" =>
          /\ people = buildFamilyLinks(Unlinked(people))
          /\ \A i \in Entities : people[i].gender = "unset"
          /\ tree = NoTree
    /\ pc = "drawn" =>
          /\ ChildrenOf(people) = ChildrenOf(buildFamilyLinks(Unlinked(people)))
          /\ \A i \in Entities : people[i].gender # "unset"
          /\ tree = buildHierarchy(findRootPerson(people), people)

\* a build that read two documents, made a stub with a child and drew parents
C25_Witness ==
    /\ pc = "drawn"
    /\ Len(files) = 2
    /\ \E i \in Entities : ~people[i].hasParentsSection /\ people[i].children # <<>>
    /\ Len(tree.nodes) > 1

\* ------------------------------------------------------------ parser properties
LineStart(t, i) == i = 1 \/ At(t, i - 1) = "NL"

RECURSIVE SkipBlanks(_, _)
SkipBlanks(t, i) == IF At(t, i) = "SP" THEN SkipBlanks(t, i + 1) ELSE i

\* A heading line that matches the Parents marker starts at index i: heading
\* markers, blanks, the section label in any letter case.
ParentsHeadingLineAt(t, i) ==
    /\ LineStart(t, i)
    /\ At(t, i) = "#"
    /\ IsParentsWordI(At(t, SkipBlanks(t, SkipHashes(t, i))))

ParentsHeadingLines(t) == {i \in 1..Len(t) : ParentsHeadingLineAt(t, i)}

\* The line starts of the section that belongs to the first Parents heading
\* line: after that line, before the next heading line of any level.
SectionLineStarts(t) ==
    LET k    == SetMin(ParentsHeadingLines(t))
        next == {n \in (k + 1)..Len(t) : LineStart(t, n) /\ t[n] = "#"}
        stop == IF next = {} THEN Len(t) + 1 ELSE SetMin(next)
    IN  {j \in (k + 1)..(stop - 1) : LineStart(t, j)}

HasParentLineInSection(t, label) ==
    /\ ParentsHeadingLines(t) # {}
    /\ \E j \in SectionLineStarts(t) : ParentLineAt(t, j, label) # <<0, 0>>

\* C9: parseParents returns hasSection = TRUE exactly when the text holds a
\* heading line matching the Parents marker (followed by further lines or the
\* last line of the text), and without such a heading it returns
\* hasSection = FALSE with both parent ids null.
C9_HasSectionIffHeading ==
    parsed =>
        /\ result.hasSection <=> (ParentsHeadingLines(content) # {})
        /\ ~result.hasSection => (result.mother = Null /\ result.father = Null)

\* C10: a parent id is returned only for a Mother/Father line that lies
\* between the Parents heading and the next heading line of any level (or the
\* end of the text).
C10_ParentOnlyFromSection ==
    parsed =>
        /\ result.mother # Null => HasParentLineInSection(content, "Mat")
        /\ result.father # Null => HasParentLineInSection(content, "Ot")

\* The reference of the line that parseParents takes a parent from: the text
\* between the brackets of the first matching line of the block, Null when
\* no line matches.
ReferenceOf(t, label) ==
    LET sec == MatchParentsSection(t)
    IN  IF ~sec.found THEN Null
        ELSE IF ~MatchParentLine(sec.block, label).found THEN Null
        ELSE MatchParentLine(sec.block, label).ref

\* v is the id of the reference r: r is blanks, v, blanks, and then either
\* ends or goes on with a pipe; v holds no pipe and no blank at either end.
IsIdOf(v, r) ==
    /\ v # Null
    /\ \A x \in 1..Len(v) : v[x] # "|"
    /\ v # <<>> => (~IsWs(v[1]) /\ ~IsWs(v[Len(v)]))
    /\ \E i \in 0..Len(r) : \E k \in 0..Len(r) :
          /\ i + Len(v) <= k
          /\ \A x \in 1..i : IsWs(r[x])
          /\ SubSeq(r, i + 1, i + Len(v)) = v
          /\ \A x \in (i + Len(v) + 1)..k : IsWs(r[x])
          /\ (k = Len(r) \/ r[k + 1] = "|")

\* C11: the id parseParents returns for a parent is the text of the bracketed
\* reference before its first pipe, without the blanks around it; with no
\* pipe in the reference it is the reference without the blanks around it.
C11_IdBeforePipeTrimmed ==
    parsed =>
        /\ ReferenceOf(content, "Mat") # Null
              => IsIdOf(result.mother, ReferenceOf(content, "Mat"))
        /\ ReferenceOf(content, "Ot") # Null
              => IsIdOf(result.father, ReferenceOf(content, "Ot"))

C11_Witness ==
    /\ parsed
    /\ ReferenceOf(content, "Ot") = <<"SP", "b", "SP", "|", "a">>
    /\ result.father = <<"b">>
    /\ ReferenceOf(content, "Mat") = <<"a">>
    /\ result.mother = <<"a">>

\* C12: parseParents never returns the empty string as motherId or fatherId:
\* a reference that is empty or blank before its first pipe or its closing
\* brackets gives null, like a label with no matching line.
C12_NeverEmptyId ==
    parsed => (result.mother # <<>> /\ result.father # <<>>)

\* C13: parsing the canonical block written for mother A and father B (names
\* without pipe, bracket, line feed or blanks around them) gives back
\* motherId = A, fatherId = B, hasSection = TRUE.  A canonical block has one
\* pair of names, so the pair returned is the pair written exactly when the
\* block written for the pair returned is the text parsed.
C13_RoundTrip ==
    (parsed /\ content \in RoundTripTexts) =>
        /\ result.hasSection
        /\ result.mother \in RoundTripNames
        /\ result.father \in RoundTripNames
        /\ content = Serialize(result.mother, result.father)

C13_Witness ==
    /\ parsed
    /\ content = Serialize(<<"Par", "SP", "#">>, <<"-", "Ot">>)
    /\ result = [mother |-> <<"Par", "SP", "#">>, father |-> <<"-", "Ot">>,
                 hasSection |-> TRUE]

\* The lines of the Parents block of the text.
BlockLines(t) == SplitLines(MatchParentsSection(t).block, <<>>)

\* The positions of the lines of the block that are a line of the label.
LabelLines(t, label) ==
    {k \in 1..Len(BlockLines(t)) : ParentLineAt(BlockLines(t)[k], 1, label) # <<0, 0>>}

\* The parent id that line k of the block gives for the label.
LineId(t, k, label) ==
    LET g == ParentLineAt(BlockLines(t)[k], 1, label)
    IN  Trim(BeforePipe(SubSeq(BlockLines(t)[k], g[1], g[2])))

\* C26: when the Parents block has several Mother lines, or several Father
\* lines, parseParents returns the reference of the first of them in
\* document order.
C26_FirstLineWins ==
    parsed =>
        /\ Cardinality(LabelLines(content, "Mat")) > 1
              => result.mother = LineId(content, SetMin(LabelLines(content, "Mat")), "Mat")
        /\ Cardinality(LabelLines(content, "Ot")) > 1
              => result.father = LineId(content, SetMin(LabelLines(content, "Ot")), "Ot")

\* two Mother lines with different ids: the first is returned
C26_Witness ==
    /\ parsed
    /\ Cardinality(LabelLines(content, "Mat")) > 1
    /\ result.mother = LineId(content, SetMin(LabelLines(content, "Mat")), "Mat")
    /\ result.mother # LineId(content, SetMax(LabelLines(content, "Mat")), "Mat")

====
